---- MODULE Spec2Model ----
(***************************************************************************)
(* Verification-and-correction pipeline of llm_hallucination_correction.   *)
(*                                                                         *)
(* Two orchestrators are modelled: process_query of src/core/orchestrator  *)
(* (eight stages) and process_correction of the packaged orchestrator      *)
(* (five stages), together with the claim extractor, the evidence          *)
(* verifier and the answer corrector they call.  The collaborators are     *)
(* also modelled called on their own (SpecComponents): one call of         *)
(* extract_claims, verify_claim, classify_intent, correct_answer, search   *)
(* or call_with_retry on inputs drawn from bounded sets, a second          *)
(* verify_claim with the same arguments, and the retrieval loop run        *)
(* against a store.  SpecStore is a sequence of add_documents calls on one *)
(* collection; SpecFrontEnd is process_single_query of main.py and         *)
(* batch_process of the orchestrator over the runs of the queries.  Texts  *)
(* are sequences of characters; confidences, similarities and distances    *)
(* are percentages (0.9 is 90).                                            *)
(***************************************************************************)
EXTENDS Integers, Sequences, FiniteSets, TLC

\* ------------------------------------------------------------------ bounds
MaxSentences == 2      \* sentences in a generated or supplied answer
MaxLines == 2          \* lines in a claim-extraction response

\* --------------------------------------------------------------- text model
Rep(c, n) == [i \in 1..n |-> c]

IsSpace(c) == c = " "

\* the character class [.!?...] of _fallback_extraction
IsTerminal(c) == c = "."

RECURSIVE lstrip(_)
lstrip(s) == IF s # <<>> /\ IsSpace(Head(s)) THEN lstrip(Tail(s)) ELSE s

RECURSIVE rstrip(_)
rstrip(s) ==
    IF s # <<>> /\ IsSpace(s[Len(s)]) THEN rstrip(SubSeq(s, 1, Len(s) - 1)) ELSE s

strip(s) == rstrip(lstrip(s))

\* s[:n]
Truncate(s, n) == IF Len(s) <= n THEN s ELSE SubSeq(s, 1, n)

\* re.split(r'[.!?]+', text): the pieces between maximal runs of terminal
\* punctuation, empty pieces at the ends included
RECURSIVE SplitFrom(_, _, _)
SplitFrom(s, cur, inRun) ==
    IF s = <<>> THEN <<cur>>
    ELSE IF IsTerminal(Head(s))
         THEN IF inRun THEN SplitFrom(Tail(s), cur, TRUE)
              ELSE <<cur>> \o SplitFrom(Tail(s), <<>>, TRUE)
         ELSE SplitFrom(Tail(s), Append(cur, Head(s)), FALSE)

re_split(text) == SplitFrom(text, <<>>, FALSE)

\* ------------------------------------------------------------ claim extractor
ShortTextLimit == 10
MinSentenceLen == 10

\* the claim of the short-text and whole-text paths
WholeTextClaim(text) == [text |-> text, confidence |-> 100, atomic |-> TRUE]

RECURSIVE FallbackLoop(_, _)
FallbackLoop(sentences, i) ==
    IF i > Len(sentences) THEN <<>>
    ELSE LET sentence == strip(sentences[i])
         IN  (IF Len(sentence) > MinSentenceLen
              THEN << [id |-> i, text |-> sentence, confidence |-> 70,
                       atomic |-> FALSE, original_position |-> i - 1] >>
              ELSE <<>>)
             \o FallbackLoop(sentences, i + 1)

\* the fallback without its last resort, the whole text as one claim
_fallback_extraction_sentences_only(text) == FallbackLoop(re_split(text), 1)

_fallback_extraction(text) ==
    LET claims == FallbackLoop(re_split(text), 1)
    IN  IF claims # <<>> THEN claims ELSE << WholeTextClaim(text) >>

\* re.match(r'\[CLAIM_(\d+)\]:\s*(.+)', line) on a line of the response: a
\* line is the tag (present or not), its number and the text after it
LineMatches(line) == line.tagged /\ strip(line.body) # <<>>

\* first index of claim_text in original_text, else 0
_estimate_position(claim_text, original_text) ==
    LET n == Len(claim_text)
        hits == {k \in 0..(Len(original_text) - n) :
                    SubSeq(original_text, k + 1, k + n) = claim_text}
    IN  IF hits # {} THEN CHOOSE k \in hits : \A j \in hits : k <= j ELSE 0

RECURSIVE ParseLines(_, _)
ParseLines(lines, original_text) ==
    IF lines = <<>> THEN <<>>
    ELSE LET line == Head(lines)
         IN  (IF LineMatches(line)
              THEN << [id |-> line.num, text |-> strip(line.body),
                       confidence |-> 90, atomic |-> TRUE,
                       original_position |->
                           _estimate_position(strip(line.body), original_text)] >>
              ELSE <<>>)
             \o ParseLines(Tail(lines), original_text)

_parse_claims_response(response, original_text) ==
    LET claims == ParseLines(response, original_text)
    IN  IF claims = <<>> THEN _fallback_extraction(original_text) ELSE claims

\* the length test made on the text as given, blanks around it counted
IsShortText_untrimmed(text) == text = <<>> \/ Len(text) < ShortTextLimit

IsShortText(text) == text = <<>> \/ Len(strip(text)) < ShortTextLimit

\* extract_claims once the gateway has answered (resp is not consulted for a
\* short text: no call is made)
extract_claims(text, resp) ==
    IF IsShortText(text) THEN << WholeTextClaim(text) >>
    ELSE IF resp.error THEN _fallback_extraction(text)
    ELSE _parse_claims_response(resp.text, text)

\* ------------------------------------------------------------------ gateway
\* call_with_retry returns {text, usage, model, finish_reason} or the error
\* result {error: true, text: diagnostic}
DiagText == Rep("e", 12)

GatewayError == [error |-> TRUE, text |-> DiagText]

\* the diagnostic as read by a stage that looks for JSON in it
GatewayErrorTokens == [error |-> TRUE, text |-> << [k |-> "txt", v |-> ""] >>]

\* an outcome of one call: the call raised, or returned result
Raised == [raise |-> TRUE, result |-> <<>>]

Returned(r) == [raise |-> FALSE, result |-> r]

GatewayOk(t) == [error |-> FALSE, text |-> t, usage |-> "usage"]

\* dict.get(key, default)
Get(d, k, default) == IF k \in DOMAIN d THEN d[k] ELSE default

\* ------------------------------------------------------- evidence verifier
\* A verification or detection response is a sequence of tokens [k, v]: free
\* text (k = "txt"), the braces (k = "{", "}"), the bare JSON values
\* (k = "num", "arr"), and the members of a JSON object (k the key, v the
\* value).
Tok(k) == [k |-> k, v |-> ""]

Member(k, v) == [k |-> k, v |-> v]

IsMember(tok) == tok.k \notin {"txt", "{", "}", "num", "arr"}

\* re.search(r'\{.*\}', response, re.DOTALL): from the first "{" to the
\* last "}" behind it
BraceMatch(response) ==
    LET opens == {i \in 1..Len(response) : response[i].k = "{"}
        first == CHOOSE i \in opens : \A j \in opens : i <= j
        closes == {j \in 1..Len(response) : response[j].k = "}" /\ j > first}
        last == CHOOSE j \in closes : \A i \in closes : i <= j
    IN  IF opens = {} \/ closes = {} THEN [found |-> FALSE, str |-> <<>>]
        ELSE [found |-> TRUE, str |-> SubSeq(response, first, last)]

\* the dict of an object's members; a repeated key keeps its last value
ObjectOf(members) ==
    LET keys == {members[i].k : i \in 1..Len(members)}
        lastOf(key) == CHOOSE i \in 1..Len(members) :
                          /\ members[i].k = key
                          /\ \A j \in 1..Len(members) : members[j].k = key => j <= i
    IN  [key \in keys |-> members[lastOf(key)].v]

\* json.loads: kind "error" stands for JSONDecodeError
json_loads(s) ==
    IF /\ Len(s) >= 2 /\ s[1].k = "{" /\ s[Len(s)].k = "}"
       /\ \A i \in 2..(Len(s) - 1) : IsMember(s[i])
    THEN [kind |-> "object", value |-> ObjectOf(SubSeq(s, 2, Len(s) - 1))]
    ELSE IF Len(s) = 1 /\ s[1].k = "num" THEN [kind |-> "number", value |-> <<>>]
    ELSE IF Len(s) = 1 /\ s[1].k = "arr" THEN [kind |-> "array", value |-> <<>>]
    ELSE [kind |-> "error", value |-> <<>>]

\* Python values held in a dict: str, number, list (by its length), bool
JStr(x) == [t |-> "str", x |-> x]

JNum(x) == [t |-> "num", x |-> x]

JList(n) == [t |-> "list", x |-> n]

JBool(b) == [t |-> "bool", x |-> b]

_create_error_result(claim, error_message) ==
    [verdict |-> JStr("UNVERIFIED"), confidence |-> JNum(0), claim |-> claim,
     supporting_evidence |-> JList(0), contradicting_evidence |-> JList(0),
     reasoning |-> JStr(<<"error", error_message>>),
     intent_specific_analysis |-> JStr(""), error |-> JBool(TRUE),
     timestamp |-> "now"]

RawSnippetLen == 200

_create_fallback_result(claim, intent, raw_response) ==
    [verdict |-> JStr("UNVERIFIED"), confidence |-> JNum(30), claim |-> claim,
     intent |-> intent,
     supporting_evidence |-> JList(0), contradicting_evidence |-> JList(0),
     reasoning |-> JStr(<<"unparsed", Truncate(raw_response, RawSnippetLen)>>),
     intent_specific_analysis |-> JStr("format"), fallback |-> JBool(TRUE),
     timestamp |-> "now"]

\* the decoded object with claim, intent and timestamp set and both evidence
\* lists present
Standardise(obj, claim, intent) ==
    LET keys == DOMAIN obj \cup {"claim", "intent", "timestamp",
                                 "supporting_evidence", "contradicting_evidence"}
    IN  [k \in keys |->
            CASE k = "claim" -> claim
              [] k = "intent" -> intent
              [] k = "timestamp" -> "now"
              [] k \in {"supporting_evidence", "contradicting_evidence"} ->
                    IF k \in DOMAIN obj /\ obj[k].t = "list"
                    THEN obj[k] ELSE JList(0)
              [] OTHER -> obj[k]]

\* [exc |-> exception type or "", value |-> the Verification]
_parse_verification_response(response, claim, intent) ==
    LET m == BraceMatch(response)
        decoded == IF m.found THEN json_loads(m.str) ELSE json_loads(response)
        fallback == [exc |-> "",
                     value |-> _create_fallback_result(claim, intent, response)]
    IN  CASE decoded.kind = "error" -> fallback
          [] decoded.kind = "number" -> [exc |-> "TypeError", value |-> <<>>]
          [] decoded.kind = "array" -> fallback
          [] OTHER ->
               IF {"verdict", "confidence"} \subseteq DOMAIN decoded.value
               THEN [exc |-> "",
                     value |-> Standardise(decoded.value, claim, intent)]
               ELSE fallback

\* verify_claim once the gateway has answered
verify_claim(claim, evidence_snippets, intent, response) ==
    IF Get(response, "error", FALSE)
    THEN IF "error_message" \in DOMAIN response
         THEN [exc |-> "",
               value |-> _create_error_result(claim, response["error_message"])]
         ELSE [exc |-> "KeyError", value |-> <<>>]
    ELSE _parse_verification_response(response.text, claim, intent)

\* ------------------------------------------------------ intent classifier
supported_intents == <<"factual", "comparison", "method", "opinion">>

default_intent == "factual"

InSeq(x, seq) == \E i \in 1..Len(seq) : seq[i] = x

\* IntentClassifier.__init__: the two settings read with config.get
IntentClassifier(config) ==
    [supported_intents |-> Get(config, "supported_intents", <<>>),
     default_intent |-> Get(config, "default_intent", "factual")]

\* the response is the sequence of its words; the regex patterns only ever
\* return a candidate that is a supported intent found in the response
IntentClassifier_parse_intent_response(self, response) ==
    LET found == {i \in 1..Len(self.supported_intents) :
                     InSeq(self.supported_intents[i], response)}
    IN  IF found # {}
        THEN self.supported_intents[CHOOSE i \in found : \A j \in found : i <= j]
        ELSE self.default_intent

IntentClassifier_classify_intent(self, response) ==
    IF Get(response, "error", FALSE) THEN self.default_intent
    ELSE LET intent == IntentClassifier_parse_intent_response(self, response.text)
         IN  IF InSeq(intent, self.supported_intents) THEN intent
             ELSE self.default_intent

\* the classifier of the pipeline runs, built from the intent settings above
PipelineClassifier ==
    IntentClassifier([supported_intents |-> supported_intents,
                      default_intent |-> default_intent])

_parse_intent_response(response) ==
    IntentClassifier_parse_intent_response(PipelineClassifier, response)

classify_intent(response) ==
    IntentClassifier_classify_intent(PipelineClassifier, response)

intent_templates == {"factual", "comparison", "method", "opinion"}

\* the response is the sequence of the comma-separated entities
_extract_comparison_entities(response) ==
    IF Get(response, "error", FALSE) THEN <<"query">>
    ELSE SelectSeq(response.text, LAMBDA e : e # "")

\* the template of the intent filled with the query or the two entities
generate_retrieval_prompt(intent, response) ==
    LET entities == _extract_comparison_entities(response)
    IN  IF intent = "comparison" /\ Len(entities) >= 2
        THEN <<intent, entities[1], entities[2]>>
        ELSE <<intent, "query">>

\* ------------------------------------------------------ evidence retrieval
\* _retrieve_evidence (packaged = FALSE) and _retrieve_evidence_for_claims
\* (packaged = TRUE): hits[i] is the outcome of the i-th search, ents[i] of
\* the i-th entity-extraction call.  [exc, value], value the evidence map
RECURSIVE RetrieveLoop(_, _, _, _, _, _, _)
RetrieveLoop(packaged, claims, intent, ents, hits, i, acc) ==
    IF i > Len(claims) THEN acc
    ELSE LET claim == claims[i]
             asksGateway == packaged /\ intent = "comparison"
         IN  IF "id" \notin DOMAIN claim THEN [acc EXCEPT !.exc = "KeyError"]
             ELSE IF asksGateway /\ ents[i].raise
             THEN [acc EXCEPT !.exc = "Exception"]
             ELSE IF packaged /\ intent \notin intent_templates
             THEN [acc EXCEPT !.exc = "KeyError"]
             ELSE IF hits[i].raise THEN [acc EXCEPT !.exc = "Exception"]
             ELSE LET entry ==
                        [claim |-> claim.text,
                         evidence |-> hits[i].result,
                         retrieval_query |->
                            IF packaged
                            THEN <<generate_retrieval_prompt(intent,
                                      IF asksGateway THEN ents[i].result
                                      ELSE GatewayError), claim.text>>
                            ELSE <<"query", claim.text>>]
                      ids == DOMAIN acc.value \cup {claim.id}
                  IN  RetrieveLoop(packaged, claims, intent, ents, hits, i + 1,
                         [acc EXCEPT !.value =
                             [k \in ids |-> IF k = claim.id THEN entry
                                            ELSE acc.value[k]]])

_retrieve_evidence(packaged, claims, intent, ents, hits) ==
    RetrieveLoop(packaged, claims, intent, ents, hits, 1,
                 [exc |-> "", value |-> <<>>])

\* --------------------------------------------------------- claim verification
\* the no-evidence Verification given the confidence of the parse fallback
NoEvidenceResult_fallback_confidence(claim, full) ==
    [claim_id |-> claim.id, claim |-> claim.text,
     verdict |-> JStr("UNVERIFIED"), confidence |-> JNum(30),
     reasoning |-> JStr("no evidence")]

\* the Verification of a claim whose id is not in the evidence map
NoEvidenceResult(claim, full) ==
    IF full
    THEN [claim_id |-> claim.id, claim |-> claim.text,
          verdict |-> JStr("UNVERIFIED"), confidence |-> JNum(0),
          evidence_count |-> 0, reasoning |-> JStr("no evidence"),
          supporting_evidence |-> JList(0), contradicting_evidence |-> JList(0)]
    ELSE [claim_id |-> claim.id, claim |-> claim.text,
          verdict |-> JStr("UNVERIFIED"), confidence |-> JNum(0),
          reasoning |-> JStr("no evidence")]

\* verification_result['claim_id'] = ...; ['evidence_count'] = ...
WithClaimId(v, claim_id, evidence_count) ==
    [k \in DOMAIN v \cup {"claim_id", "evidence_count"} |->
        CASE k = "claim_id" -> claim_id
          [] k = "evidence_count" -> evidence_count
          [] OTHER -> v[k]]

\* The loop of _verify_claims (tagged = FALSE: src/core/orchestrator) and of
\* batch_verify and the packaged _verify_claims (tagged = TRUE).  outs[i] is
\* the outcome of the gateway call for the i-th claim, should one be made.
\* [exc, value, calls]: calls lists the claims a gateway call was made for
RECURSIVE VerifyLoop(_, _, _, _, _, _, _)
VerifyLoop(tagged, claims, evidence_map, intent, outs, i, acc) ==
    IF i > Len(claims) THEN acc
    ELSE LET claim == claims[i]
         IN  IF "id" \notin DOMAIN claim THEN [acc EXCEPT !.exc = "KeyError"]
             ELSE IF claim.id \in DOMAIN evidence_map
             THEN LET called == [acc EXCEPT !.calls = Append(@, i)]
                      evidence == evidence_map[claim.id].evidence
                      v == verify_claim(claim.text, evidence, intent,
                                        outs[i].result)
                  IN  IF outs[i].raise THEN [called EXCEPT !.exc = "Exception"]
                      ELSE IF v.exc # "" THEN [called EXCEPT !.exc = v.exc]
                      ELSE VerifyLoop(tagged, claims, evidence_map, intent,
                              outs, i + 1,
                              [called EXCEPT !.value = Append(@,
                                  IF tagged
                                  THEN WithClaimId(v.value, claim.id,
                                                   Len(evidence))
                                  ELSE v.value)])
             ELSE VerifyLoop(tagged, claims, evidence_map, intent, outs, i + 1,
                     [acc EXCEPT !.value =
                         Append(@, NoEvidenceResult(claim, tagged))])

\* the loop started at the second claim
_verify_claims_from_second(tagged, claims, evidence_map, intent, outs) ==
    VerifyLoop(tagged, claims, evidence_map, intent, outs, 2,
               [exc |-> "", value |-> <<>>, calls |-> <<>>])

_verify_claims(tagged, claims, evidence_map, intent, outs) ==
    VerifyLoop(tagged, claims, evidence_map, intent, outs, 1,
               [exc |-> "", value |-> <<>>, calls |-> <<>>])

\* ----------------------------------------------------------- answer corrector
CountVerdict(verifications, verdict) ==
    Cardinality({i \in 1..Len(verifications) :
        Get(verifications[i], "verdict", JStr("")) = JStr(verdict)})

\* _prepare_verification_summary formats the confidence with :.2f and slices
\* the reasoning: both fail on a value of another type
SummaryFails(verifications) ==
    \E i \in 1..Len(verifications) :
        \/ Get(verifications[i], "confidence", JNum(0)).t # "num"
        \/ Get(verifications[i], "reasoning", JStr("")).t # "str"

\* the tallies taken only when the gateway call succeeded
correct_answer_tallies_on_success(original_answer, verifications, intent, response) ==
    [exc |-> "",
     value |-> [corrected_answer |->
                   IF Get(response, "error", FALSE)
                   THEN <<"diagnostic", Get(response, "error_message", "unknown")>>
                   ELSE <<"text", response.text>>,
                intent |-> intent,
                verifications_count |-> Len(verifications),
                supported_claims |->
                   IF Get(response, "error", FALSE) THEN 0
                   ELSE CountVerdict(verifications, "SUPPORTED"),
                contradicted_claims |->
                   IF Get(response, "error", FALSE) THEN 0
                   ELSE CountVerdict(verifications, "CONTRADICTED")]]

\* [exc, value]
correct_answer(original_answer, verifications, intent, response) ==
    IF SummaryFails(verifications) THEN [exc |-> "TypeError", value |-> <<>>]
    ELSE [exc |-> "",
          value |-> [corrected_answer |->
                        IF Get(response, "error", FALSE)
                        THEN <<"diagnostic",
                               Get(response, "error_message", "unknown")>>
                        ELSE <<"text", response.text>>,
                     intent |-> intent,
                     verifications_count |-> Len(verifications),
                     supported_claims |->
                        CountVerdict(verifications, "SUPPORTED"),
                     contradicted_claims |->
                        CountVerdict(verifications, "CONTRADICTED")]]

\* ------------------------------------------------------ hallucination detector
\* [exc, value]: json.loads of the whole response text, the fallback on
\* JSONDecodeError, then .get on what was decoded
_detect_hallucinations(response) ==
    LET decoded == json_loads(response.text)
    IN  CASE decoded.kind = "error" ->
               [exc |-> "",
                value |-> [has_hallucination |-> JBool(FALSE),
                           error |-> JStr("unparsed"),
                           raw_response |->
                               Truncate(response.text, RawSnippetLen)]]
          [] decoded.kind = "object" -> [exc |-> "", value |-> decoded.value]
          [] OTHER -> [exc |-> "AttributeError", value |-> <<>>]

\* ------------------------------------------------------------------- report
\* the exception _generate_final_report raises, "" if none
ReportFault(claims, verifications) ==
    IF verifications = <<>> THEN "ZeroDivisionError"
    ELSE IF \E i \in 1..Len(claims) : "id" \notin DOMAIN claims[i]
    THEN "KeyError"
    ELSE IF \E i \in 1..Len(verifications) :
               Get(verifications[i], "confidence", JNum(0)).t # "num"
    THEN "TypeError"
    ELSE ""

_generate_final_report(claims, verifications, analysis) ==
    [total_claims |-> Len(claims),
     supported_claims |-> CountVerdict(verifications, "SUPPORTED"),
     has_hallucination |-> Get(analysis, "has_hallucination", JBool(FALSE))]

\* ------------------------------------------------------------------- inputs
SentenceLens == {3, 10, 11}

RECURSIVE JoinSentences(_)
JoinSentences(lens) ==
    IF lens = <<>> THEN <<>>
    ELSE Rep("a", Head(lens)) \o <<".">>
         \o (IF Tail(lens) # <<>> THEN <<" ">> ELSE <<>>)
         \o JoinSentences(Tail(lens))

SeqsUpTo(S, n) == UNION {[1..k -> S] : k \in 0..n}

AnswerTexts == {JoinSentences(lens) : lens \in SeqsUpTo(SentenceLens, MaxSentences)}

ClaimLines ==
    { [tagged |-> FALSE, num |-> 0, body |-> Rep("x", 5)],
      [tagged |-> TRUE, num |-> 1, body |-> <<" ">> \o Rep("b", 11)],
      [tagged |-> TRUE, num |-> 2, body |-> <<" ">> \o Rep("b", 12)] }

ClaimResponses == SeqsUpTo(ClaimLines, MaxLines)

Snippet == [text |-> "doc", source |-> "unknown", similarity |-> 80, rank |-> 1]

EvidenceLists == {<<>>, <<Snippet>>}

Verdict(v) == Member("verdict", JStr(v))

Confidence(c) == Member("confidence", JNum(c))

VerifyTexts ==
    { <<Tok("txt")>>,
      <<Tok("txt"), Tok("{"), Verdict("SUPPORTED"), Confidence(90),
        Member("supporting_evidence", JStr("none")), Tok("}")>> }

DetectTexts ==
    { <<Tok("txt")>>,
      <<Tok("{"), Member("has_hallucination", JBool(TRUE)), Tok("}")>>,
      <<Tok("num")>> }

Outcomes(results) == {Raised} \cup {Returned(r) : r \in results}

InitialAnswerOutcomes ==
    Outcomes({GatewayError} \cup {GatewayOk(t) : t \in AnswerTexts})

IntentOutcomes ==
    Outcomes({GatewayError, GatewayOk(<<"comparison">>), GatewayOk(<<"chat">>)})

ExtractOutcomes ==
    Outcomes({GatewayError} \cup {GatewayOk(ls) : ls \in ClaimResponses})

EntityOutcomes == Outcomes({GatewayError, GatewayOk(<<"x", "", "y">>)})

SearchOutcomes == Outcomes(EvidenceLists)

VerifyOutcomes ==
    Outcomes({GatewayErrorTokens} \cup {GatewayOk(t) : t \in VerifyTexts})

CorrectOutcomes == Outcomes({GatewayError, GatewayOk(Rep("c", 12))})

DetectOutcomes ==
    Outcomes({GatewayErrorTokens} \cup {GatewayOk(t) : t \in DetectTexts})

\* -------------------------------------------------------------------- state
VARIABLES
    entry,                  \* the method called: process_query,
                            \* process_correction, batch_verify, _verify_claims
    pc,                     \* index of the next stage of the entry
    initial_answer,
    intent,
    claims,
    evidence_map,
    verifications,
    correction,             \* the result of correct_answer
    hallucination_analysis,
    final_report,
    execution_steps,        \* keys of execution_steps, in insertion order
    result,                 \* what the entry returned, once it has
    started,                \* history: the stages entered
    completed,              \* history: the stages that returned
    verify_calls,           \* history: claims a verification call was made for
    degraded,               \* history: stages handed a degraded gateway result
    call,                   \* a collaborator called on its own: the method
                            \* and its arguments
    ret,                    \* what that call returned or raised, once it has
    attempts,               \* history: outcomes of the gateway attempts and
                            \* calls that call has made
    knowledge_base,         \* the documents of the retriever's collection
    doc_ids,                \* history: the ids each add_documents call made
    batch_results           \* the results list of a batch being processed

vars == <<entry, pc, initial_answer, intent, claims, evidence_map,
          verifications, correction, hallucination_analysis, final_report,
          execution_steps, result, started, completed, verify_calls,
          degraded, call, ret, attempts, knowledge_base, doc_ids,
          batch_results>>

\* the store and the batch front ends, untouched by a single run
side_vars == <<knowledge_base, doc_ids, batch_results>>

NoSide == knowledge_base = <<>> /\ doc_ids = <<>> /\ batch_results = <<>>

\* no collaborator is called on its own during a pipeline run
NoCall == [op |-> "none"]

NoRet == [done |-> FALSE, exc |-> "", value |-> <<>>]

\* process_query with retrieval and verification exchanged
process_query_stages_swapped ==
    <<"generate_initial_answer", "classify_intent", "extract_claims",
      "verify_claims", "retrieve_evidence", "correct_answer",
      "detect_hallucination", "assemble_report">>

process_query_stages ==
    <<"generate_initial_answer", "classify_intent", "extract_claims",
      "retrieve_evidence", "verify_claims", "correct_answer",
      "detect_hallucination", "assemble_report">>

process_correction_stages ==
    <<"classify_intent", "extract_claims", "retrieve_evidence",
      "verify_claims", "correct_answer">>

\* batch_verify and _verify_claims called on their own are the one loop
verify_stages == <<"verify_claims">>

Stages == CASE entry = "process_query" -> process_query_stages
            [] entry = "process_correction" -> process_correction_stages
            [] OTHER -> verify_stages

\* the packaged orchestrator and batch_verify set claim_id on a Verification
Tagged == entry \in {"process_correction", "batch_verify"}

\* the execution_steps key a stage is logged under
StepKey(stage) ==
    CASE stage = "generate_initial_answer" -> "initial_answer_generation"
      [] stage = "classify_intent" -> "intent_classification"
      [] stage = "extract_claims" -> "claim_extraction"
      [] stage = "retrieve_evidence" -> "evidence_retrieval"
      [] stage = "verify_claims" -> "claim_verification"
      [] stage = "correct_answer" -> "answer_correction"
      [] stage = "detect_hallucination" -> "hallucination_detection"

\* execution_steps[...] = step_meta follows every stage but the report
LogsStep(stage) ==
    entry \in {"process_query", "process_correction"} /\ stage # "assemble_report"

_identify_error_step(steps) ==
    IF steps = <<>> THEN "initialization" ELSE steps[Len(steps)]

NoResult ==
    [outcome |-> "running", success |-> FALSE, fields |-> {},
     execution_steps |-> <<>>, steps_completed |-> <<>>,
     error |-> "", error_step |-> ""]

\* the dict returned at the end of the try block (the verification list
\* for the loop called on its own)
SuccessResult(steps) ==
    IF entry = "process_query"
    THEN [outcome |-> "returned", success |-> TRUE,
          fields |-> {"success", "query", "results", "execution_steps",
                      "processing_metadata"},
          execution_steps |-> steps, steps_completed |-> steps,
          error |-> "", error_step |-> ""]
    ELSE IF entry = "process_correction"
    THEN [outcome |-> "returned", success |-> TRUE,
          fields |-> {"success", "query", "detected_intent", "original_answer",
                      "corrected_answer", "processing_metadata",
                      "analysis_results"},
          execution_steps |-> steps, steps_completed |-> <<>>,
          error |-> "", error_step |-> ""]
    ELSE [outcome |-> "returned", success |-> TRUE, fields |-> {},
          execution_steps |-> <<>>, steps_completed |-> <<>>,
          error |-> "", error_step |-> ""]

\* a handler that catches KeyError only: anything else reaches the caller
FailedResult_KeyErrorOnly(e, steps) ==
    [outcome |-> IF e = "KeyError" THEN "returned" ELSE "propagated",
     success |-> FALSE,
     fields |-> {"success", "query", "error", "processing_metadata"},
     execution_steps |-> <<>>, steps_completed |-> <<>>,
     error |-> e, error_step |-> _identify_error_step(steps)]

\* except Exception as e: the dict returned by the handler; the loop called
\* on its own has no handler and the exception reaches its caller
FailedResult(e, steps) ==
    IF entry = "process_query"
    THEN [outcome |-> "returned", success |-> FALSE,
          fields |-> {"success", "query", "error", "processing_metadata"},
          execution_steps |-> <<>>, steps_completed |-> <<>>,
          error |-> e, error_step |-> _identify_error_step(steps)]
    ELSE IF entry = "process_correction"
    THEN [outcome |-> "returned", success |-> FALSE,
          fields |-> {"success", "query", "original_answer", "error",
                      "processing_metadata"},
          execution_steps |-> <<>>, steps_completed |-> <<>>,
          error |-> e, error_step |-> ""]
    ELSE [outcome |-> "propagated", success |-> FALSE, fields |-> {},
          execution_steps |-> <<>>, steps_completed |-> <<>>,
          error |-> e, error_step |-> ""]

Init ==
    /\ entry \in {"process_query", "process_correction"}
    /\ pc = 1
    /\ initial_answer \in (IF entry = "process_query" THEN {<<>>}
                            ELSE AnswerTexts)
    /\ intent = ""
    /\ claims = <<>>
    /\ evidence_map = <<>>
    /\ verifications = <<>>
    /\ correction = <<>>
    /\ hallucination_analysis = <<>>
    /\ final_report = <<>>
    /\ execution_steps = <<>>
    /\ result = NoResult
    /\ started = <<>>
    /\ completed = <<>>
    /\ verify_calls = <<>>
    /\ degraded = {}
    /\ call = NoCall
    /\ ret = NoRet
    /\ attempts = <<>>
    /\ NoSide

At(stage) == result.outcome = "running" /\ pc <= Len(Stages) /\ Stages[pc] = stage

\* the stage returned: its step is logged, the next stage is up, and after
\* the last stage the entry returns
Complete(stage) ==
    LET steps == IF LogsStep(stage)
                 THEN Append(execution_steps, StepKey(stage))
                 ELSE execution_steps
    IN  /\ started' = Append(started, stage)
        /\ completed' = Append(completed, stage)
        /\ execution_steps' = steps
        /\ pc' = pc + 1
        /\ result' = IF pc = Len(Stages) THEN SuccessResult(steps) ELSE result
        /\ UNCHANGED <<call, ret, attempts, side_vars>>

\* the stage raised e: the handler of the entry returns
Fail(stage, e) ==
    /\ started' = Append(started, stage)
    /\ result' = FailedResult(e, execution_steps)
    /\ UNCHANGED <<completed, execution_steps, pc, call, ret, attempts,
                   side_vars>>

Finish(stage, exc) == IF exc = "" THEN Complete(stage) ELSE Fail(stage, exc)

\* A degraded gateway result is the error result or a text the stage cannot
\* parse: no supported intent, no [CLAIM_n] line, no decodable JSON.
DegradedIntent(r) ==
    r.error \/ \A i \in 1..Len(supported_intents) :
                  ~InSeq(supported_intents[i], r.text)

DegradedExtraction(r) == r.error \/ \A i \in 1..Len(r.text) : ~LineMatches(r.text[i])

DegradedVerification(r) ==
    r.error \/ LET m == BraceMatch(r.text)
               IN  json_loads(IF m.found THEN m.str ELSE r.text).kind = "error"

DegradedDetection(r) == r.error \/ json_loads(r.text).kind = "error"

Mark(stage, isDegraded) ==
    IF isDegraded THEN degraded \cup {stage} ELSE degraded

StageGenerateInitialAnswer ==
    /\ At("generate_initial_answer")
    /\ \E out \in InitialAnswerOutcomes :
          /\ initial_answer' = IF out.raise THEN initial_answer
                               ELSE out.result.text
          /\ Finish("generate_initial_answer",
                    IF out.raise THEN "Exception" ELSE "")
          /\ degraded' = Mark("generate_initial_answer",
                              ~out.raise /\ out.result.error)
    /\ UNCHANGED <<entry, intent, claims, evidence_map, verifications,
                   correction, hallucination_analysis, final_report,
                   verify_calls>>

StageClassifyIntent ==
    /\ At("classify_intent")
    /\ \E out \in IntentOutcomes :
          /\ intent' = IF out.raise THEN intent ELSE classify_intent(out.result)
          /\ Finish("classify_intent", IF out.raise THEN "Exception" ELSE "")
          /\ degraded' = Mark("classify_intent",
                              ~out.raise /\ DegradedIntent(out.result))
    /\ UNCHANGED <<entry, initial_answer, claims, evidence_map, verifications,
                   correction, hallucination_analysis, final_report,
                   verify_calls>>

\* a short text is answered without a gateway call
StageExtractClaims ==
    /\ At("extract_claims")
    /\ \E out \in IF IsShortText(initial_answer)
                   THEN {Returned(GatewayError)} ELSE ExtractOutcomes :
          /\ claims' = IF out.raise THEN claims
                       ELSE extract_claims(initial_answer, out.result)
          /\ Finish("extract_claims", IF out.raise THEN "Exception" ELSE "")
          /\ degraded' = Mark("extract_claims",
                              /\ ~IsShortText(initial_answer)
                              /\ ~out.raise
                              /\ DegradedExtraction(out.result))
    /\ UNCHANGED <<entry, initial_answer, intent, evidence_map, verifications,
                   correction, hallucination_analysis, final_report,
                   verify_calls>>

\* the entity-extraction call is made by the packaged pipeline for the
\* comparison intent only; without the call there is no outcome to draw
StageRetrieveEvidence ==
    /\ At("retrieve_evidence")
    /\ \E hits \in [1..Len(claims) -> SearchOutcomes],
          ents \in (IF entry = "process_correction" /\ intent = "comparison"
                    THEN [1..Len(claims) -> EntityOutcomes]
                    ELSE {[i \in 1..Len(claims) |-> Raised]}) :
          LET r == _retrieve_evidence(entry = "process_correction", claims,
                                      intent, ents, hits)
          IN  /\ evidence_map' = IF r.exc = "" THEN r.value ELSE evidence_map
              /\ Finish("retrieve_evidence", r.exc)
    /\ UNCHANGED <<entry, initial_answer, intent, claims, verifications,
                   correction, hallucination_analysis, final_report,
                   verify_calls, degraded>>

StageVerifyClaims ==
    /\ At("verify_claims")
    /\ \E outs \in [1..Len(claims) -> VerifyOutcomes] :
          LET r == _verify_claims(Tagged, claims, evidence_map, intent, outs)
          IN  /\ verifications' = IF r.exc = "" THEN r.value ELSE verifications
              /\ verify_calls' = r.calls
              /\ Finish("verify_claims", r.exc)
              /\ degraded' = Mark("verify_claims",
                                  \E k \in 1..Len(r.calls) :
                                      /\ ~outs[r.calls[k]].raise
                                      /\ DegradedVerification(
                                             outs[r.calls[k]].result))
    /\ UNCHANGED <<entry, initial_answer, intent, claims, evidence_map,
                   correction, hallucination_analysis, final_report>>

StageCorrectAnswer ==
    /\ At("correct_answer")
    /\ \E out \in CorrectOutcomes :
          LET r == IF out.raise THEN [exc |-> "Exception", value |-> <<>>]
                   ELSE correct_answer(initial_answer, verifications, intent,
                                       out.result)
          IN  /\ correction' = IF r.exc = "" THEN r.value ELSE correction
              /\ Finish("correct_answer", r.exc)
              /\ degraded' = Mark("correct_answer",
                                  ~out.raise /\ out.result.error)
    /\ UNCHANGED <<entry, initial_answer, intent, claims, evidence_map,
                   verifications, hallucination_analysis, final_report,
                   verify_calls>>

StageDetectHallucination ==
    /\ At("detect_hallucination")
    /\ \E out \in DetectOutcomes :
          LET r == IF out.raise THEN [exc |-> "Exception", value |-> <<>>]
                   ELSE _detect_hallucinations(out.result)
          IN  /\ hallucination_analysis' =
                     IF r.exc = "" THEN r.value ELSE hallucination_analysis
              /\ Finish("detect_hallucination", r.exc)
              /\ degraded' = Mark("detect_hallucination",
                                  ~out.raise /\ DegradedDetection(out.result))
    /\ UNCHANGED <<entry, initial_answer, intent, claims, evidence_map,
                   verifications, correction, final_report, verify_calls>>

StageAssembleReport ==
    /\ At("assemble_report")
    /\ LET exc == ReportFault(claims, verifications)
       IN  /\ final_report' =
                  IF exc = ""
                  THEN _generate_final_report(claims, verifications,
                                              hallucination_analysis)
                  ELSE final_report
           /\ Finish("assemble_report", exc)
    /\ UNCHANGED <<entry, initial_answer, intent, claims, evidence_map,
                   verifications, correction, hallucination_analysis,
                   verify_calls, degraded>>

Next ==
    \/ StageGenerateInitialAnswer
    \/ StageClassifyIntent
    \/ StageExtractClaims
    \/ StageRetrieveEvidence
    \/ StageVerifyClaims
    \/ StageCorrectAnswer
    \/ StageDetectHallucination
    \/ StageAssembleReport

Spec == Init /\ [][Next]_vars

\* ---------------------------------------------- the verification loop alone
\* batch_verify and _verify_claims take any claim list and any evidence map:
\* the claim lists are those extract_claims returns, the maps hold any of the
\* ids
ClaimLists ==
    {extract_claims(t, r) : t \in AnswerTexts,
                            r \in {GatewayError} \cup
                                  {GatewayOk(ls) : ls \in ClaimResponses}}

ClaimIds == 1..(MaxLines + 1)

EvidenceEntries ==
    {[claim |-> Rep("b", 11), evidence |-> e, retrieval_query |-> <<"query">>] :
        e \in EvidenceLists}

EvidenceMaps == UNION {[ids -> EvidenceEntries] : ids \in SUBSET ClaimIds}

InitBatchVerify ==
    /\ entry \in {"batch_verify", "_verify_claims"}
    /\ pc = 1
    /\ initial_answer = <<>>
    /\ intent = default_intent
    /\ claims \in ClaimLists
    /\ evidence_map \in EvidenceMaps
    /\ verifications = <<>>
    /\ correction = <<>>
    /\ hallucination_analysis = <<>>
    /\ final_report = <<>>
    /\ execution_steps = <<>>
    /\ result = NoResult
    /\ started = <<>>
    /\ completed = <<>>
    /\ verify_calls = <<>>
    /\ degraded = {}
    /\ call = NoCall
    /\ ret = NoRet
    /\ attempts = <<>>
    /\ NoSide

NextBatchVerify == StageVerifyClaims

SpecBatchVerify == InitBatchVerify /\ [][NextBatchVerify]_vars

\* ------------------------------------------------------------ vector store
\* The collection is the list of its documents, nearest to the query first,
\* each with its distance from the query.
Min(a, b) == IF a <= b THEN a ELSE b

\* collection.query(query_embeddings, n_results): the n_results nearest
collection_query(collection, n_results) ==
    SubSeq(collection, 1, Min(n_results, Len(collection)))

RECURSIVE SearchLoop(_, _, _)
SearchLoop(results, i, similarity_threshold) ==
    IF i > Len(results) THEN <<>>
    ELSE LET similarity == 100 - results[i].distance
         IN  (IF similarity >= similarity_threshold
              THEN << [text |-> results[i].text,
                       source |-> Get(results[i].metadata, "source", "unknown"),
                       similarity |-> similarity, rank |-> i] >>
              ELSE <<>>)
             \o SearchLoop(results, i + 1, similarity_threshold)

\* search with the threshold test left out
search_keeping_all(collection, n_results, similarity_threshold) ==
    SearchLoop(collection_query(collection, n_results), 1, -100)

search(collection, n_results, similarity_threshold) ==
    SearchLoop(collection_query(collection, n_results), 1, similarity_threshold)

\* ------------------------------------------------------- gateway with retry
\* call(prompt) catches what the provider raises and returns the error result
CallFailed(diagnostic) == [error |-> TRUE, text |-> <<diagnostic>>]

\* one more attempt is made after max_retries failures
MayAttempt_one_more(max_retries, made) == made <= max_retries

\* the loop of call_with_retry goes on while attempts are left
MayAttempt(max_retries, made) == made < max_retries

\* the result once every attempt has failed: the last diagnostic embedded
RetriesExhausted(made) ==
    [error |-> TRUE,
     text |-> <<"all retries failed">> \o
              (IF made = <<>> THEN <<>> ELSE made[Len(made)].text)]

\* ------------------------------------------- collaborators called on their own
MaxDocs == 3             \* documents in the collection
MaxResults == 2          \* n_results asked of a search
MaxRetries == 2          \* max_retries of a call_with_retry
MaxVerifications == 3    \* verifications handed to correct_answer

Pad(k, text) == Rep(" ", k) \o text \o Rep(" ", k)

\* texts around the short-text limit, bare and with blanks around them
ExtractTexts ==
    AnswerTexts \cup
    {Pad(k, Rep("a", n) \o <<".">>) : k \in {0, 2}, n \in {3, 8, 9}}

ExtractResults == {GatewayError} \cup {GatewayOk(ls) : ls \in ClaimResponses}

\* verification responses: no JSON, an object in text, objects with every
\* verdict, with a verdict outside the four, lacking a required field, bare
\* JSON values, braces around no object, two objects, a text over 200 long
ComponentVerifyTexts ==
    VerifyTexts \cup
    { <<Tok("{"), Verdict("CONTRADICTED"), Confidence(80), Tok("}")>>,
      <<Tok("{"), Verdict("PARTIALLY_SUPPORTED"), Confidence(50),
        Member("supporting_evidence", JList(1)), Tok("}")>>,
      <<Tok("{"), Verdict("UNVERIFIED"), Confidence(10), Tok("}")>>,
      <<Tok("{"), Verdict("MAYBE"), Confidence(60), Tok("}")>>,
      <<Tok("{"), Verdict("SUPPORTED"), Tok("}")>>,
      <<Tok("{"), Confidence(90), Tok("}")>>,
      <<Tok("{"), Tok("}")>>,
      <<Tok("num")>>,
      <<Tok("arr")>>,
      <<Tok("{"), Tok("txt"), Tok("}")>>,
      <<Tok("txt"), Tok("{")>>,
      <<Tok("{"), Verdict("SUPPORTED"), Confidence(90), Tok("}"), Tok("txt"),
        Tok("{"), Verdict("CONTRADICTED"), Confidence(80), Tok("}")>>,
      Rep(Tok("txt"), RawSnippetLen + 1) }

ComponentVerifyResults ==
    {GatewayErrorTokens} \cup {GatewayOk(t) : t \in ComponentVerifyTexts}

ComponentDetectTexts ==
    DetectTexts \cup
    { <<Tok("arr")>>, <<Tok("{"), Tok("}")>>,
      <<Tok("txt"), Tok("{"), Member("has_hallucination", JBool(TRUE)),
        Tok("}")>>,
      Rep(Tok("txt"), RawSnippetLen + 1) }

ComponentDetectResults ==
    {GatewayErrorTokens} \cup {GatewayOk(t) : t \in ComponentDetectTexts}

\* the "intent" section of a configuration: either key may be missing
IntentConfigs ==
    {[supported_intents |-> supported_intents, default_intent |-> default_intent],
     [supported_intents |-> supported_intents, default_intent |-> "chat"],
     [supported_intents |-> <<"comparison", "method">>,
      default_intent |-> default_intent],
     [supported_intents |-> <<"comparison", "method">>,
      default_intent |-> "method"],
     [supported_intents |-> supported_intents],
     [default_intent |-> "method"],
     [default_intent |-> "chat"],
     [supported_intents |-> <<>>, default_intent |-> default_intent]}

IntentResults ==
    {GatewayError, GatewayOk(<<"comparison">>), GatewayOk(<<"chat">>),
     GatewayOk(<<"the", "opinion", "method">>), GatewayOk(<<>>),
     GatewayOk(<<"factual">>)}

\* the Verifications the verifier and the verification loop build
Verifications ==
    {Standardise([verdict |-> JStr(v), confidence |-> JNum(80)],
                 Rep("b", 11), default_intent) :
        v \in {"SUPPORTED", "CONTRADICTED", "PARTIALLY_SUPPORTED"}}
    \cup {_create_fallback_result(Rep("b", 11), default_intent, <<Tok("txt")>>),
          _create_error_result(Rep("b", 11), "diagnostic"),
          NoEvidenceResult([id |-> 1, text |-> Rep("b", 11)], FALSE)}

VerificationLists == SeqsUpTo(Verifications, MaxVerifications)

CorrectResults == {GatewayError, GatewayOk(Rep("c", 12))}

Distances == {10, 30, 80, 150}

Document(distance) ==
    [text |-> "doc",
     metadata |-> IF distance = 10 THEN [source |-> "wiki"] ELSE <<>>,
     distance |-> distance]

Collections ==
    {[i \in 1..Len(ds) |-> Document(ds[i])] :
        ds \in {d \in SeqsUpTo(Distances, MaxDocs) :
                   \A i \in 1..(Len(d) - 1) : d[i] <= d[i + 1]}}

Thresholds == {20, 70}

AttemptResults ==
    {CallFailed("timeout"), CallFailed("rate limit"), GatewayOk(Rep("c", 12))}

\* an extraction response may repeat a [CLAIM_n] number on another statement
RetrievalClaimLines ==
    ClaimLines \cup
    {[tagged |-> TRUE, num |-> 1, body |-> <<" ">> \o Rep("c", 11)]}

\* the claim lists extract_claims returns for a short and for a long text
RetrievalClaimLists ==
    {extract_claims(t, r) :
        t \in {Rep("a", 4), Rep("a", 11) \o <<".">>},
        r \in {GatewayError} \cup
              {GatewayOk(ls) : ls \in SeqsUpTo(RetrievalClaimLines, MaxLines)}}

\* what the collection holds near a query: nothing, or four documents
StoreViews ==
    {<<>>, <<Document(10), Document(30), Document(30), Document(80)>>}

\* a store answers by the query alone: one view for each claim text
Stores(claim_list) ==
    [{claim_list[i].text : i \in 1..Len(claim_list)} -> StoreViews]

\* the "retrieval" section of a configuration
RetrievalConfigs ==
    {[retrieval |-> [max_retrieved_docs |-> k, similarity_threshold |-> t]] :
        k \in {2, 3, 5}, t \in {70, 80}}

\* what a retrieval loop hands to search: _retrieve_evidence passes
\* n_results=3 and leaves the threshold to search's default of 0.7,
\* _retrieve_evidence_for_claims passes the two configured values
SearchArguments(packaged, config) ==
    IF packaged
    THEN [n_results |-> config.retrieval.max_retrieved_docs,
          similarity_threshold |-> config.retrieval.similarity_threshold]
    ELSE [n_results |-> 3, similarity_threshold |-> 70]

\* the retrieval loop run against a store
RetrieveFromStore(packaged, claim_list, for_intent, config, store) ==
    LET a == SearchArguments(packaged, config)
        hits == [i \in 1..Len(claim_list) |->
                    Returned(search(store[claim_list[i].text], a.n_results,
                                    a.similarity_threshold))]
        ents == [i \in 1..Len(claim_list) |-> Raised]
    IN  _retrieve_evidence(packaged, claim_list, for_intent, ents, hits)

\* the searches made: one for each claim before the first without an id
SearchesMade(packaged, claim_list, config) ==
    LET bare == {i \in 1..Len(claim_list) : "id" \notin DOMAIN claim_list[i]}
        n == IF bare = {} THEN Len(claim_list)
             ELSE (CHOOSE i \in bare : \A j \in bare : i <= j) - 1
    IN  [i \in 1..n |-> SearchArguments(packaged, config)]

pipeline_vars ==
    <<entry, pc, initial_answer, intent, claims, evidence_map, verifications,
      correction, hallucination_analysis, final_report, execution_steps,
      result, started, completed, verify_calls, degraded>>

InitComponents ==
    /\ entry = "collaborator"
    /\ pc = 1
    /\ initial_answer = <<>>
    /\ intent = ""
    /\ claims = <<>>
    /\ evidence_map = <<>>
    /\ verifications = <<>>
    /\ correction = <<>>
    /\ hallucination_analysis = <<>>
    /\ final_report = <<>>
    /\ execution_steps = <<>>
    /\ result = NoResult
    /\ started = <<>>
    /\ completed = <<>>
    /\ verify_calls = <<>>
    /\ degraded = {}
    /\ \/ \E t \in ExtractTexts : call = [op |-> "extract_claims", text |-> t]
       \/ \E e \in EvidenceLists :
             call = [op |-> "verify_claim", claim |-> Rep("b", 11),
                     evidence_snippets |-> e, intent |-> default_intent]
       \/ call = [op |-> "_detect_hallucinations"]
       \/ \E c \in IntentConfigs : call = [op |-> "classify_intent", config |-> c]
       \/ \E a \in {Rep("a", 11)}, vs \in VerificationLists,
             i \in {default_intent, "comparison"} :
             call = [op |-> "correct_answer", original_answer |-> a,
                     verifications |-> vs, intent |-> i]
       \/ \E c \in Collections, n \in 1..MaxResults, t \in Thresholds :
             call = [op |-> "search", collection |-> c, n_results |-> n,
                     similarity_threshold |-> t]
       \/ \E n \in 0..MaxRetries :
             call = [op |-> "call_with_retry", max_retries |-> n]
       \/ \E p \in BOOLEAN, cl \in RetrievalClaimLists, c \in RetrievalConfigs :
             \E s \in Stores(cl) :
                call = [op |-> "_retrieve_evidence", packaged |-> p,
                        claims |-> cl, intent |-> default_intent,
                        config |-> c, store |-> s]
    /\ ret = NoRet
    /\ attempts = <<>>
    /\ NoSide

Calling(op) == call.op = op /\ ~ret.done

\* the call returns value or raises exc
Return(r) == ret' = [done |-> TRUE, exc |-> r.exc, value |-> r.value]

CallExtractClaims ==
    /\ Calling("extract_claims")
    /\ IF IsShortText(call.text)
       THEN /\ attempts' = <<>>
            /\ Return([exc |-> "",
                       value |-> extract_claims(call.text, GatewayError)])
       ELSE \E out \in ExtractResults :
               /\ attempts' = <<out>>
               /\ Return([exc |-> "", value |-> extract_claims(call.text, out)])
    /\ UNCHANGED <<pipeline_vars, side_vars, call>>

CallVerifyClaim ==
    /\ Calling("verify_claim")
    /\ \E out \in ComponentVerifyResults :
          /\ attempts' = <<out>>
          /\ Return(verify_claim(call.claim, call.evidence_snippets,
                                 call.intent, out))
    /\ UNCHANGED <<pipeline_vars, side_vars, call>>

\* a later invocation that no longer vouches for its answer
AtLaterTime_decaying(r) ==
    IF r.exc = ""
    THEN [r EXCEPT !.value.timestamp = "later",
                   !.value.confidence = JNum(0 - 1)]
    ELSE r

\* _get_timestamp read by an invocation made after the first one
AtLaterTime(r) ==
    IF r.exc = "" THEN [r EXCEPT !.value.timestamp = "later"] ELSE r

\* verify_claim invoked a second time with the same arguments; the gateway
\* answers the same prompt with the same response
CallVerifyClaimAgain ==
    /\ call.op = "verify_claim" /\ ret.done /\ Len(attempts) = 1
    /\ LET out == attempts[1]
           r == AtLaterTime(verify_claim(call.claim, call.evidence_snippets,
                                         call.intent, out))
       IN  /\ attempts' = Append(attempts, out)
           /\ ret' = [done |-> TRUE, exc |-> ret.exc, value |-> ret.value,
                      second |-> r]
    /\ UNCHANGED <<pipeline_vars, side_vars, call>>

CallDetectHallucinations ==
    /\ Calling("_detect_hallucinations")
    /\ \E out \in ComponentDetectResults :
          /\ attempts' = <<out>>
          /\ Return(_detect_hallucinations(out))
    /\ UNCHANGED <<pipeline_vars, side_vars, call>>

CallClassifyIntent ==
    /\ Calling("classify_intent")
    /\ \E out \in IntentResults :
          /\ attempts' = <<out>>
          /\ Return([exc |-> "",
                     value |-> IntentClassifier_classify_intent(
                                   IntentClassifier(call.config), out)])
    /\ UNCHANGED <<pipeline_vars, side_vars, call>>

CallCorrectAnswer ==
    /\ Calling("correct_answer")
    /\ \E out \in CorrectResults :
          /\ attempts' = <<out>>
          /\ Return(correct_answer(call.original_answer, call.verifications,
                                   call.intent, out))
    /\ UNCHANGED <<pipeline_vars, side_vars, call>>

CallSearch ==
    /\ Calling("search")
    /\ Return([exc |-> "",
               value |-> search(call.collection, call.n_results,
                                call.similarity_threshold)])
    /\ UNCHANGED <<pipeline_vars, side_vars, call, attempts>>

CallRetrieveEvidence ==
    /\ Calling("_retrieve_evidence")
    /\ attempts' = SearchesMade(call.packaged, call.claims, call.config)
    /\ Return(RetrieveFromStore(call.packaged, call.claims, call.intent,
                                call.config, call.store))
    /\ UNCHANGED <<pipeline_vars, side_vars, call>>

\* one turn of the loop of call_with_retry: an attempt, returned if it
\* succeeded
RetryAttempt ==
    /\ Calling("call_with_retry")
    /\ MayAttempt(call.max_retries, Len(attempts))
    /\ \E out \in AttemptResults :
          /\ attempts' = Append(attempts, out)
          /\ IF out.error THEN ret' = ret
             ELSE Return([exc |-> "", value |-> out])
    /\ UNCHANGED <<pipeline_vars, side_vars, call>>

\* the loop is over and no attempt succeeded
RetryGiveUp ==
    /\ Calling("call_with_retry")
    /\ ~MayAttempt(call.max_retries, Len(attempts))
    /\ Return([exc |-> "", value |-> RetriesExhausted(attempts)])
    /\ UNCHANGED <<pipeline_vars, side_vars, call, attempts>>

NextComponents ==
    \/ CallExtractClaims
    \/ CallVerifyClaim
    \/ CallVerifyClaimAgain
    \/ CallDetectHallucinations
    \/ CallClassifyIntent
    \/ CallCorrectAnswer
    \/ CallSearch
    \/ CallRetrieveEvidence
    \/ RetryAttempt
    \/ RetryGiveUp

SpecComponents == InitComponents /\ [][NextComponents]_vars

\* ------------------------------------------------------- knowledge base
MaxAdds == 3

MaxBatch == 2

DocumentLists == SeqsUpTo({"doc a", "doc b"}, MaxBatch)

\* no run and no call of a collaborator is under way
PipelineIdle ==
    /\ pc = 1
    /\ initial_answer = <<>>
    /\ intent = ""
    /\ claims = <<>>
    /\ evidence_map = <<>>
    /\ verifications = <<>>
    /\ correction = <<>>
    /\ hallucination_analysis = <<>>
    /\ final_report = <<>>
    /\ execution_steps = <<>>
    /\ result = NoResult
    /\ started = <<>>
    /\ completed = <<>>
    /\ verify_calls = <<>>
    /\ degraded = {}

\* doc_ids = [f"doc_{i}" for i in range(len(documents))]
make_doc_ids(documents) == [i \in 1..Len(documents) |-> i - 1]

StoredIds(kb) == {kb[i].id : i \in 1..Len(kb)}

\* the documents whose id the collection does not hold yet
RECURSIVE NewEntries(_, _, _, _)
NewEntries(kb, ids, documents, i) ==
    IF i > Len(ids) THEN <<>>
    ELSE (IF ids[i] \in StoredIds(kb) THEN <<>>
          ELSE <<[id |-> ids[i], document |-> documents[i]]>>)
         \o NewEntries(kb, ids, documents, i + 1)

\* chromadb's collection.add, a library outside the repository: handed ids
\* the collection already holds, a release either raises or stores only the
\* documents under new ids
CollectionAddOutcomes(kb, ids) ==
    IF \E i \in 1..Len(ids) : ids[i] \in StoredIds(kb)
    THEN {"raise", "skip"} ELSE {"add"}

InitStore ==
    /\ entry = "add_documents"
    /\ PipelineIdle
    /\ call = NoCall /\ ret = NoRet /\ attempts = <<>>
    /\ NoSide

AddDocuments ==
    /\ entry = "add_documents"
    /\ Len(doc_ids) < MaxAdds
    /\ \E documents \in DocumentLists :
          IF documents = <<>>
          THEN /\ doc_ids' = Append(doc_ids, <<>>)
               /\ UNCHANGED knowledge_base
          ELSE LET ids == make_doc_ids(documents)
               IN  /\ doc_ids' = Append(doc_ids, ids)
                   /\ \E o \in CollectionAddOutcomes(knowledge_base, ids) :
                         knowledge_base' =
                            IF o = "raise" THEN knowledge_base
                            ELSE knowledge_base \o
                                 NewEntries(knowledge_base, ids, documents, 1)
    /\ UNCHANGED <<pipeline_vars, call, ret, attempts, batch_results>>

NextStore == AddDocuments

SpecStore == InitStore /\ [][NextStore]_vars

\* ------------------------------------------------------------- front ends
MaxQueries == 3

\* how the run of a query ends: with the report, or in the handler of
\* process_query with the exception and the step it names
RunKinds ==
    {[success |-> TRUE, error |-> "", error_step |-> ""],
     [success |-> FALSE, error |-> "KeyError", error_step |-> "claim_extraction"],
     [success |-> FALSE, error |-> "Exception", error_step |-> "initialization"]}

\* the dict process_query returns: fields are its keys, metadata_keys the
\* keys of its processing_metadata
ProcessQueryReturns(query, kind) ==
    IF kind.success
    THEN [success |-> TRUE, query |-> query,
          fields |-> {"success", "query", "results", "execution_steps",
                      "processing_metadata"},
          metadata_keys |-> {"total_duration", "timestamp", "steps_completed"},
          error |-> "", error_step |-> ""]
    ELSE [success |-> FALSE, query |-> query,
          fields |-> {"success", "query", "error", "processing_metadata"},
          metadata_keys |-> {"timestamp", "error_step"},
          error |-> kind.error, error_step |-> kind.error_step]

\* the dict built in the handler of process_single_query
FrontEndFailure(query, e) ==
    [success |-> FALSE, query |-> query,
     fields |-> {"success", "query", "error", "timestamp"},
     metadata_keys |-> {}, error |-> e, error_step |-> ""]

\* [exc, value]
process_single_query(query, kind) ==
    LET result_ == ProcessQueryReturns(query, kind)
    IN  [exc |-> "",
         value |-> IF "processing_metadata" \notin result_.fields
                   THEN FrontEndFailure(query, "KeyError")
                   ELSE [result_ EXCEPT
                            !.metadata_keys = @ \cup {"total_duration"},
                            !.success = TRUE]]

\* [exc, value]: what the user is shown
_display_result(result_) ==
    IF ~result_.success
    THEN [exc |-> "",
          value |-> <<"failed", IF "error" \in result_.fields
                                THEN result_.error ELSE "unknown">>]
    ELSE IF {"results", "processing_metadata"} \subseteq result_.fields
    THEN [exc |-> "", value |-> <<"report">>]
    ELSE [exc |-> "KeyError", value |-> <<>>]

\* progress counted from 0
batch_info_from_zero(i, total) ==
    [index |-> i - 1, total |-> total, progress |-> <<i - 1, total>>]

\* result['batch_info']
batch_info(i, total) ==
    [index |-> i, total |-> total, progress |-> <<i, total>>]

WithBatchInfo(result_, info) ==
    [k \in DOMAIN result_ \cup {"batch_info"} |->
        CASE k = "batch_info" -> info
          [] k = "fields" -> result_.fields \cup {"batch_info"}
          [] OTHER -> result_[k]]

InitFrontEnd ==
    /\ entry = "front_end"
    /\ PipelineIdle
    /\ \/ \E k \in RunKinds :
             call = [op |-> "process_single_query", query |-> 1, kind |-> k]
       \/ \E ks \in SeqsUpTo(RunKinds, MaxQueries) :
             call = [op |-> "batch_process",
                     queries |-> [i \in 1..Len(ks) |-> Len(ks) + 1 - i],
                     kinds |-> ks]
    /\ ret = NoRet
    /\ attempts = <<>>
    /\ NoSide

CallProcessSingleQuery ==
    /\ Calling("process_single_query")
    /\ Return(process_single_query(call.query, call.kind))
    /\ UNCHANGED <<pipeline_vars, side_vars, call, attempts>>

\* interactive_mode shows what process_single_query returned
DisplayResult ==
    /\ call.op = "process_single_query" /\ ret.done
    /\ "display" \notin DOMAIN ret
    /\ ret' = [done |-> TRUE, exc |-> ret.exc, value |-> ret.value,
               display |-> _display_result(ret.value)]
    /\ UNCHANGED <<pipeline_vars, side_vars, call, attempts>>

\* one turn of the loop of batch_process
BatchProcessQuery ==
    /\ Calling("batch_process")
    /\ Len(batch_results) < Len(call.queries)
    /\ LET i == Len(batch_results) + 1
           result_ == ProcessQueryReturns(call.queries[i], call.kinds[i])
       IN  batch_results' =
              Append(batch_results,
                     WithBatchInfo(result_, batch_info(i, Len(call.queries))))
    /\ UNCHANGED <<pipeline_vars, knowledge_base, doc_ids, call, ret, attempts>>

BatchReturn ==
    /\ Calling("batch_process")
    /\ Len(batch_results) = Len(call.queries)
    /\ Return([exc |-> "", value |-> batch_results])
    /\ UNCHANGED <<pipeline_vars, side_vars, call, attempts>>

NextFrontEnd ==
    \/ CallProcessSingleQuery
    \/ DisplayResult
    \/ BatchProcessQuery
    \/ BatchReturn

SpecFrontEnd == InitFrontEnd /\ [][NextFrontEnd]_vars

\* =================================================================== claims
Pipeline == entry \in {"process_query", "process_correction"}

Failed == result.outcome = "returned" /\ ~result.success

Succeeded == result.outcome = "returned" /\ result.success

LastStarted == started[Len(started)]

ClaimedStageOrder ==
    <<"generate_initial_answer", "classify_intent", "extract_claims",
      "retrieve_evidence", "verify_claims", "correct_answer",
      "detect_hallucination", "assemble_report">>

\* the log entry of a stage
StageEntry(stage) ==
    CASE stage = "generate_initial_answer" -> "initial_answer_generation"
      [] stage = "classify_intent" -> "intent_classification"
      [] stage = "extract_claims" -> "claim_extraction"
      [] stage = "retrieve_evidence" -> "evidence_retrieval"
      [] stage = "verify_claims" -> "claim_verification"
      [] stage = "correct_answer" -> "answer_correction"
      [] stage = "detect_hallucination" -> "hallucination_detection"
      [] OTHER -> "report_assembly"

\* C1: in process_query the stages entered are always an initial part of
\* the order generate_initial_answer, classify_intent, extract_claims,
\* retrieve_evidence, verify_claims, correct_answer, detect_hallucination,
\* assemble_report (none skipped, none repeated); a stage is entered only
\* when every stage entered before it has returned; and a successful run
\* has completed all eight and lists in steps_completed the entries of the
\* logged stages in that order.
C1_StageOrder ==
    entry = "process_query" =>
        /\ Len(started) <= Len(ClaimedStageOrder)
        /\ started = SubSeq(ClaimedStageOrder, 1, Len(started))
        /\ Len(completed) <= Len(started)
        /\ completed = SubSeq(started, 1, Len(completed))
        /\ Len(started) <= Len(completed) + 1
        /\ Succeeded =>
              /\ completed = ClaimedStageOrder
              /\ result.steps_completed =
                    <<"initial_answer_generation", "intent_classification",
                      "claim_extraction", "evidence_retrieval",
                      "claim_verification", "answer_correction",
                      "hallucination_detection">>

C1_Witness == entry = "process_query" /\ Succeeded

\* C2: a run of process_query or process_correction never lets an exception
\* out; once a stage has raised the run has returned success=false with the
\* error; and success=true is returned only when every stage has returned
\* (for process_query, the report stage included).
C2_TerminalStates ==
    Pipeline =>
        /\ result.outcome \in {"running", "returned"}
        /\ Len(started) > Len(completed) =>
              /\ Failed
              /\ result.error # ""
              /\ "error" \in result.fields
        /\ Succeeded =>
              /\ started = completed
              /\ completed = IF entry = "process_query" THEN ClaimedStageOrder
                             ELSE <<"classify_intent", "extract_claims",
                                    "retrieve_evidence", "verify_claims",
                                    "correct_answer">>
        /\ Failed => Len(started) > Len(completed)

C2_Witness ==
    /\ entry = "process_correction" /\ Failed
    /\ result.error = "Exception" /\ LastStarted = "verify_claims"

\* C3: the failed result of process_query names in error_step the stage
\* that raised.
C3_ErrorStepNamesFailingStage ==
    (entry = "process_query" /\ Failed) =>
        result.error_step = StageEntry(LastStarted)

\* C4: a stage handed a degraded gateway result (the error result, or a text
\* it cannot parse) does not raise: a run fails in such a stage only when a
\* collaborator itself raised.
C4_DegradationsAbsorbed ==
    (Pipeline /\ Failed /\ result.error # "Exception") =>
        LastStarted \notin degraded

\* C5: the run process_query returns, successful or failed, carries the
\* execution log with one entry for every stage entered, in stage order.
C5_LogCoversStartedStages ==
    (entry = "process_query" /\ result.outcome = "returned") =>
        /\ "execution_steps" \in result.fields
        /\ result.execution_steps =
              [i \in 1..Len(started) |-> StageEntry(started[i])]

\* C6: once verify_claims has returned (so whenever correct_answer starts)
\* the verification list is as long as the claim list and its i-th entry is
\* the Verification of the i-th claim.
C6_OneVerificationPerClaim ==
    (Pipeline /\ InSeq("verify_claims", completed)) =>
        /\ Len(verifications) = Len(claims)
        /\ \A i \in 1..Len(verifications) :
              /\ "claim" \in DOMAIN verifications[i]
              /\ verifications[i].claim = claims[i].text
              /\ "claim_id" \in DOMAIN verifications[i] =>
                    verifications[i].claim_id = claims[i].id

C6_Witness ==
    /\ Pipeline /\ At("correct_answer")
    /\ Len(claims) = 2 /\ claims[1].text # claims[2].text

\* C7: every claim list extract_claims returns gets through retrieval, and
\* the evidence map then has exactly the claim ids as keys, one key per
\* claim.
C7_EvidenceMapKeepsClaimIds ==
    Pipeline =>
        /\ InSeq("retrieve_evidence", completed) =>
              /\ DOMAIN evidence_map = {claims[i].id : i \in 1..Len(claims)}
              /\ Cardinality(DOMAIN evidence_map) = Len(claims)
        /\ ~(Failed /\ LastStarted = "retrieve_evidence"
                    /\ result.error = "KeyError")

\* C8: every claim extract_claims returns has an id and the ids of a run
\* are pairwise distinct.
C8_ClaimsCarryDistinctIds ==
    (Pipeline /\ InSeq("extract_claims", completed)) =>
        /\ \A i \in 1..Len(claims) : "id" \in DOMAIN claims[i]
        /\ \A i, j \in 1..Len(claims) :
              i # j => claims[i].id # claims[j].id

\* the claims whose id is a key of the evidence map
Present ==
    {i \in 1..Len(claims) :
        "id" \in DOMAIN claims[i] /\ claims[i].id \in DOMAIN evidence_map}

\* C9: a verification gateway call is made only for a claim whose id is in
\* the evidence map, and once for each; when the loop has returned the calls
\* number the claims present, and every claim absent from the map has the
\* verdict UNVERIFIED with confidence 0.0.
C9_AbsentClaimsUnverifiedWithoutCall ==
    /\ \A k \in 1..Len(verify_calls) : verify_calls[k] \in Present
    /\ \A k, l \in 1..Len(verify_calls) :
          k # l => verify_calls[k] # verify_calls[l]
    /\ InSeq("verify_claims", completed) =>
          /\ Len(verify_calls) = Cardinality(Present)
          /\ \A i \in (1..Len(claims)) \ Present :
                /\ verifications[i].verdict = JStr("UNVERIFIED")
                /\ verifications[i].confidence = JNum(0)

C9_Witness ==
    /\ InSeq("verify_claims", completed)
    /\ Present # {}
    /\ (1..Len(claims)) \ Present # {}

\* C10: no verification gateway call is made for a claim whose retrieved
\* evidence list is empty.
C10_NoEvidenceNeverSent ==
    \A k \in 1..Len(verify_calls) :
        evidence_map[claims[verify_calls[k]].id].evidence # <<>>

\* ------------------------------------------------- collaborators: helpers
Returned_(op) == call.op = op /\ ret.done

\* the gateway result the call was handed
Response == attempts[1]

FourVerdicts ==
    {JStr("SUPPORTED"), JStr("CONTRADICTED"), JStr("PARTIALLY_SUPPORTED"),
     JStr("UNVERIFIED")}

\* the first balanced JSON object of a response text: from a "{" to the
\* first "}" behind it with only members between, [found, keys, value]
FirstObject(text) ==
    LET spans == {<<i, j>> \in (1..Len(text)) \X (1..Len(text)) :
                     /\ i < j /\ text[i].k = "{" /\ text[j].k = "}"
                     /\ \A m \in (i + 1)..(j - 1) : IsMember(text[m])}
        first == CHOOSE sp \in spans :
                    \A other \in spans :
                        sp[1] < other[1] \/ (sp[1] = other[1] /\ sp[2] <= other[2])
    IN  IF spans = {} THEN [found |-> FALSE, keys |-> {}, value |-> <<>>]
        ELSE [found |-> TRUE,
              keys |-> {text[m].k : m \in (first[1] + 1)..(first[2] - 1)},
              value |-> ObjectOf(SubSeq(text, first[1] + 1, first[2] - 1))]

\* the response holds no decodable JSON object, or one lacking verdict or
\* confidence
MalformedVerification(text) ==
    \/ ~FirstObject(text).found
    \/ ~({"verdict", "confidence"} \subseteq FirstObject(text).keys)

IsFallbackVerification(v, text) ==
    /\ v.verdict = JStr("UNVERIFIED")
    /\ v.confidence = JNum(30)
    /\ v.supporting_evidence = JList(0)
    /\ v.contradicting_evidence = JList(0)
    /\ v.reasoning = JStr(<<"unparsed", Truncate(text, 200)>>)

\* C11: whatever verify_claim returns has its verdict among SUPPORTED,
\* CONTRADICTED, PARTIALLY_SUPPORTED and UNVERIFIED.
C11_VerdictInClosedSet ==
    (Returned_("verify_claim") /\ ret.exc = "") =>
        ret.value.verdict \in FourVerdicts

\* C12: handed a gateway result that is not the error result and whose text
\* holds no decodable JSON object, or an object lacking verdict or
\* confidence, verify_claim returns the fallback Verification: UNVERIFIED,
\* confidence 0.3, both evidence lists empty, the reasoning holding the
\* first 200 characters of the response.
C12_FallbackVerification ==
    (/\ Returned_("verify_claim")
     /\ ~Response.error
     /\ MalformedVerification(Response.text)) =>
        /\ ret.exc = ""
        /\ IsFallbackVerification(ret.value, Response.text)

\* the whole response text is one JSON object
WholeObject(text) ==
    /\ Len(text) >= 2 /\ text[1].k = "{" /\ text[Len(text)].k = "}"
    /\ \A m \in 2..(Len(text) - 1) : IsMember(text[m])

\* C13: neither parse raises, whatever text the gateway returned: the
\* verifier returns its fallback Verification for a text with no decodable
\* object or an object lacking a required field, and the detector returns
\* has_hallucination = false with the raw response for a text that is not a
\* JSON object.
C13_ParseNeverRaises ==
    /\ (Returned_("verify_claim") /\ ~Response.error) =>
          /\ ret.exc = ""
          /\ MalformedVerification(Response.text) =>
                "fallback" \in DOMAIN ret.value
    /\ Returned_("_detect_hallucinations") =>
          /\ ret.exc = ""
          /\ ~WholeObject(Response.text) =>
                /\ ret.value.has_hallucination = JBool(FALSE)
                /\ "raw_response" \in DOMAIN ret.value

\* C14: handed the gateway's error result, verify_claim returns the error
\* Verification: UNVERIFIED, confidence 0.0, the error marker set, both
\* evidence lists empty, the reasoning holding the diagnostic; it is not
\* the parse fallback.
C14_ErrorVerification ==
    (Returned_("verify_claim") /\ Response.error) =>
        /\ ret.exc = ""
        /\ ret.value.verdict = JStr("UNVERIFIED")
        /\ ret.value.confidence = JNum(0)
        /\ ret.value.error = JBool(TRUE)
        /\ ret.value.supporting_evidence = JList(0)
        /\ ret.value.contradicting_evidence = JList(0)
        /\ ret.value.reasoning.t = "str"
        /\ "fallback" \notin DOMAIN ret.value

\* the claim that is the whole input text
IsWholeTextClaim(c, text) ==
    c.text = text /\ c.confidence = 100 /\ c.atomic

\* C15: extract_claims returns at least one Claim for every text and every
\* gateway result; when no line of the response matches (or the gateway
\* returned the error result) and no sentence of the text is kept, it
\* returns the whole text as a single claim with confidence 1.0.
C15_ExtractNeverEmpty ==
    Returned_("extract_claims") =>
        /\ ret.exc = ""
        /\ Len(ret.value) >= 1
        /\ (/\ attempts # <<>>
            /\ Response.error \/ \A i \in 1..Len(Response.text) :
                                    ~Response.text[i].tagged
            /\ \A i \in 1..Len(re_split(call.text)) :
                  Len(strip(re_split(call.text)[i])) <= 10) =>
              /\ Len(ret.value) = 1
              /\ IsWholeTextClaim(ret.value[1], call.text)

C15_Witness ==
    /\ Returned_("extract_claims")
    /\ attempts # <<>> /\ ~Response.error /\ Response.text # <<>>
    /\ Len(ret.value) = 1 /\ IsWholeTextClaim(ret.value[1], call.text)

\* C16: for a text whose trimmed length is under 10 extract_claims returns
\* exactly one Claim, the text as given with confidence 1.0 and atomic set,
\* and makes no gateway call.
C16_ShortTextSingleClaim ==
    (Returned_("extract_claims") /\ Len(strip(call.text)) < 10) =>
        /\ ret.exc = ""
        /\ Len(ret.value) = 1
        /\ IsWholeTextClaim(ret.value[1], call.text)
        /\ attempts = <<>>

C16_Witness ==
    /\ Returned_("extract_claims")
    /\ Len(call.text) >= 10 /\ Len(strip(call.text)) = 9
    /\ attempts = <<>>

\* C17: classify_intent returns a member of the configured
\* supported_intents, whatever the gateway returned and whatever the
\* configuration.
C17_IntentInConfiguredSet ==
    Returned_("classify_intent") =>
        /\ ret.exc = ""
        /\ InSeq(ret.value, Get(call.config, "supported_intents", <<>>))

\* the verifications of the list with the verdict
Tally(vs, verdict) ==
    Cardinality({i \in 1..Len(vs) :
        "verdict" \in DOMAIN vs[i] /\ vs[i].verdict = JStr(verdict)})

C19_SearchThresholdAndCount ==
    Returned_("search") =>
        /\ ret.exc = ""
        /\ \A i \in 1..Len(ret.value) :
              /\ ret.value[i].similarity >= call.similarity_threshold
              /\ \E j \in 1..Len(call.collection) :
                    ret.value[i].similarity = 100 - call.collection[j].distance
        /\ Len(ret.value) <= call.n_results
        /\ call.collection = <<>> => ret.value = <<>>

C19_Witness ==
    /\ Returned_("search")
    /\ Len(call.collection) > call.n_results
    /\ ret.value # <<>>
    /\ Len(ret.value) < call.n_results

\* C20: call_with_retry never makes more than max_retries attempts and none
\* after an attempt that succeeded; it raises nothing; when it returns
\* after a success it returns that attempt's result, and otherwise it has
\* made exactly max_retries attempts and returns the error result with the
\* last diagnostic in its text.
C20_RetryBudget ==
    call.op = "call_with_retry" =>
        /\ Len(attempts) <= call.max_retries
        /\ \A i \in 1..(Len(attempts) - 1) : attempts[i].error
        /\ ret.done =>
              /\ ret.exc = ""
              /\ IF attempts # <<>> /\ ~attempts[Len(attempts)].error
                 THEN ret.value = attempts[Len(attempts)]
                 ELSE /\ Len(attempts) = call.max_retries
                      /\ ret.value.error
                      /\ attempts # <<>> =>
                            \E k \in 1..Len(ret.value.text) :
                                ret.value.text[k] =
                                    attempts[Len(attempts)].text[1]
        /\ ~ret.done =>
              \A i \in 1..Len(attempts) : attempts[i].error

C20_Witness ==
    /\ call.op = "call_with_retry" /\ ret.done
    /\ call.max_retries = 2 /\ Len(attempts) = 2
    /\ ret.value.error

C20_WitnessSuccess ==
    /\ call.op = "call_with_retry" /\ ret.done
    /\ Len(attempts) = 1 /\ call.max_retries = 2 /\ ~ret.value.error

\* C21: after any sequence of add_documents calls every stored document has
\* its own id, and no id made by an earlier call is made again by a later
\* call.
C21_StableDocumentIds ==
    entry = "add_documents" =>
        /\ \A i, j \in 1..Len(knowledge_base) :
              i # j => knowledge_base[i].id # knowledge_base[j].id
        /\ \A c \in 1..Len(doc_ids), d \in 1..Len(doc_ids) :
              c < d => \A i \in 1..Len(doc_ids[c]), j \in 1..Len(doc_ids[d]) :
                          doc_ids[c][i] # doc_ids[d][j]

\* C22: every Verification of a run's verification list carries the
\* claim_id of the claim it judges, whichever path produced it.
C22_VerificationsCarryClaimId ==
    \A i \in 1..Len(verifications) :
        /\ "claim_id" \in DOMAIN verifications[i]
        /\ i <= Len(claims) /\ "id" \in DOMAIN claims[i]
        /\ verifications[i].claim_id = claims[i].id

C23_WitnessFallback ==
    /\ call.op = "verify_claim" /\ ret.done /\ Len(attempts) = 2
    /\ ret.exc = "" /\ "fallback" \in DOMAIN ret.second.value

\* C24: the verifier decodes the first balanced JSON object of the response:
\* when that object holds verdict and confidence, whatever text stands
\* before it and behind it (braces and a second object included), the
\* Verification returned carries that object's verdict and confidence.
C24_FirstBalancedObjectDecoded ==
    (/\ Returned_("verify_claim")
     /\ Len(attempts) = 1
     /\ ~Response.error
     /\ ~MalformedVerification(Response.text)) =>
        /\ ret.exc = ""
        /\ ret.value.verdict = FirstObject(Response.text).value.verdict
        /\ ret.value.confidence = FirstObject(Response.text).value.confidence

\* C25: for every successful gateway response the detector returns, without
\* raising, the JSON object found in the response text, free text around it
\* or not, and for a text holding no such object the fallback:
\* has_hallucination = false with the first 200 characters of the response.
C25_DetectorParseOrFallback ==
    (Returned_("_detect_hallucinations") /\ ~Response.error) =>
        /\ ret.exc = ""
        /\ IF FirstObject(Response.text).found
           THEN ret.value = FirstObject(Response.text).value
           ELSE /\ ret.value.has_hallucination = JBool(FALSE)
                /\ ret.value.raw_response = Truncate(Response.text, 200)

\* the fragments between terminal punctuation, trimmed, that are at least
\* 10 characters long
KeptFragments(text) ==
    LET pieces == re_split(text)
        trimmed == [i \in 1..Len(pieces) |-> strip(pieces[i])]
        long(x) == Len(x) >= 10
    IN  SelectSeq(trimmed, long)

\* C26: when the gateway call failed or no response line has the [CLAIM_n]
\* format, extract_claims returns one claim per fragment of the text whose
\* trimmed length is at least 10, in order, each with confidence 0.7 and
\* atomic = false (and the whole text as one claim when there is no such
\* fragment).
C26_FallbackKeepsFragmentsOfTen ==
    (/\ Returned_("extract_claims") /\ attempts # <<>>
     /\ (Response.error \/ \A i \in 1..Len(Response.text) :
                              ~LineMatches(Response.text[i]))) =>
        LET kept == KeptFragments(call.text)
        IN  IF kept = <<>> THEN Len(ret.value) = 1
            ELSE /\ Len(ret.value) = Len(kept)
                 /\ \A i \in 1..Len(kept) :
                       /\ ret.value[i].text = kept[i]
                       /\ ret.value[i].confidence = 70
                       /\ ret.value[i].atomic = FALSE

\* C27: for every claim, retrieval calls the store with n_results equal to
\* the configured max_retrieved_docs and the threshold equal to the
\* configured similarity_threshold, so every evidence list has at most
\* max_retrieved_docs snippets, each of similarity at least
\* similarity_threshold.
C27_RetrievalUsesConfiguredLimits ==
    Returned_("_retrieve_evidence") =>
        LET k == call.config.retrieval.max_retrieved_docs
            t == call.config.retrieval.similarity_threshold
        IN  /\ \A i \in 1..Len(attempts) :
                  /\ attempts[i].n_results = k
                  /\ attempts[i].similarity_threshold = t
            /\ ret.exc = "" =>
                  \A id \in DOMAIN ret.value :
                      /\ Len(ret.value[id].evidence) <= k
                      /\ \A j \in 1..Len(ret.value[id].evidence) :
                            ret.value[id].evidence[j].similarity >= t

\* C28: for every claim list extraction can return, running the retrieval
\* loop over any permutation of the list ends the same way and gives the
\* same evidence map.
C28_RetrievalOrderIndependent ==
    Returned_("_retrieve_evidence") =>
        \A p \in Permutations(1..Len(call.claims)) :
            LET permuted == [i \in 1..Len(call.claims) |-> call.claims[p[i]]]
                r == RetrieveFromStore(call.packaged, permuted, call.intent,
                                       call.config, call.store)
            IN  /\ r.exc = ret.exc
                /\ ret.exc = "" => r.value = ret.value

\* C29: process_single_query returns success = true only when process_query
\* returned success = true, and a run process_query returned as failed
\* comes back with success = false and its error, and is shown as a failure
\* with that error.
C29_FailedRunStaysFailed ==
    Returned_("process_single_query") =>
        LET run == ProcessQueryReturns(call.query, call.kind)
        IN  /\ ret.exc = ""
            /\ ret.value.success => run.success
            /\ ~run.success =>
                  /\ ~ret.value.success
                  /\ "error" \in ret.value.fields
                  /\ ret.value.error = run.error
                  /\ "display" \in DOMAIN ret =>
                        ret.display = [exc |-> "",
                                       value |-> <<"failed", run.error>>]

\* C30: batch_process appends one result per query in input order, the
\* i-th with batch_info.index = i and total the number of queries and
\* otherwise what process_query returns for the i-th query alone; a failed
\* run does not stop the loop, and the list returned has one result for
\* every query.
C30_BatchOneResultPerQuery ==
    call.op = "batch_process" =>
        /\ Len(batch_results) <= Len(call.queries)
        /\ \A i \in 1..Len(batch_results) :
              LET run == ProcessQueryReturns(call.queries[i], call.kinds[i])
              IN  /\ batch_results[i].batch_info.index = i
                  /\ batch_results[i].batch_info.total = Len(call.queries)
                  /\ batch_results[i].query = call.queries[i]
                  /\ batch_results[i].success = run.success
                  /\ batch_results[i].error = run.error
                  /\ batch_results[i].error_step = run.error_step
                  /\ batch_results[i].fields = run.fields \cup {"batch_info"}
        /\ ret.done =>
              /\ ret.exc = ""
              /\ ret.value = batch_results
              /\ Len(ret.value) = Len(call.queries)

C30_Witness ==
    /\ call.op = "batch_process" /\ ret.done
    /\ Len(ret.value) = 3
    /\ ~ret.value[1].success /\ ret.value[2].success /\ ~ret.value[3].success
    /\ ret.value[3].batch_info.index = 3


====
